---- MODULE Spec2Model ----
(***************************************************************************)
(* Quota ledger and generation-request lifecycle of Vibra-AI.              *)
(*                                                                         *)
(* The MongoDB server applies each query (findOne, insert, update by _id)  *)
(* atomically; a handler is a sequence of such queries separated by        *)
(* awaits, and works on the document copy it loaded.  Every action below   *)
(* is one query together with the synchronous code that follows it up to   *)
(* the next await.                                                         *)
(***************************************************************************)
EXTENDS Integers, FiniteSets, Sequences, TLC

\* ------------------------------------------------------------------ bounds
NumProcs == 2          \* handlers / calls that can be in flight together
NumCalls == 3          \* concurrent Quota.incrementUsage calls
MaxEnvLimit == 2       \* largest FREE_TIER_DAILY_LIMIT tried in the environment
MaxDay == 1            \* calendar days 0..MaxDay

\* ------------------------------------------------------- program constants
DefaultFreeLimit == 5
DefaultPaidLimit == 50
MaxPromptLength == 1000

Users == {"alice", "bob"}
Tiers == {"free", "paid"}
Days == 0..MaxDay
Procs == 1..NumProcs
Calls == 1..NumCalls
GenIds == 1..(NumProcs + 2) \* two earlier Generations, and one per handler

VARIABLES
    env,        \* process.env: FREE_TIER_DAILY_LIMIT / PAID_TIER_DAILY_LIMIT (0 = unset)
    today,      \* the server's current calendar day
    tier,       \* User.tier of every user (users are never deleted)
    geminiService, \* TRUE iff the module-level geminiService was constructed
    quotas,     \* the quotas collection, one slot per (userId, date)
    gens,       \* the generations collection
    proc        \* the handlers and calls in flight

vars == <<env, today, tier, geminiService, quotas, gens, proc>>
config == <<env, today, tier, geminiService>>

\* ------------------------------------------------------------ Quota model
NoQuota == [exists |-> FALSE, date |-> 0, generationsUsed |-> 0, generationsLimit |-> 0]

\* parseInt(process.env.X) || dflt : an unset or zero value yields the default
EnvOr(v, dflt) == IF v = 0 THEN dflt ELSE v

\* the limit getTodayQuota derives from its userTier argument
TierLimit(e, userTier) ==
    IF userTier = "paid" THEN EnvOr(e.paid, DefaultPaidLimit)
                         ELSE EnvOr(e.free, DefaultFreeLimit)

\* the limit the image-to-image route gives a quota it creates
RouteLimit(userTier) == IF userTier = "paid" THEN DefaultPaidLimit ELSE DefaultFreeLimit

\* a lookup by user alone, which finds the first day's record on any day
findOneIgnoringDate(q, userId, date) == q[<<userId, 0>>]

\* this.findOne({ userId, date })
findOne(q, userId, date) == q[<<userId, date>>]

\* the document this.create / new Quota builds
NewQuota(date, limit) ==
    [exists |-> TRUE, date |-> date, generationsUsed |-> 0, generationsLimit |-> limit]

\* quota.save() of a loaded document writes the modified path only
SaveUsed(q, userId, doc) ==
    [q EXCEPT ![<<userId, doc.date>>].generationsUsed = doc.generationsUsed]

\* a save that writes the whole loaded document back
SaveLimitWholeDocument(q, userId, doc) == [q EXCEPT ![<<userId, doc.date>>] = doc]

SaveLimit(q, userId, doc) ==
    [q EXCEPT ![<<userId, doc.date>>].generationsLimit = doc.generationsLimit]

\* quota.generationsUsed += 1 on the loaded document
Charged(doc) == [doc EXCEPT !.generationsUsed = @ + 1]

\* the test both quota checks make on a loaded document
Exceeded(doc) == doc.generationsUsed >= doc.generationsLimit

\* Math.max(0, limit - used)
generationsRemaining(doc) ==
    IF doc.generationsLimit - doc.generationsUsed > 0
    THEN doc.generationsLimit - doc.generationsUsed ELSE 0

\* ------------------------------------------------------- Generation model
NoGen == [exists |-> FALSE, userId |-> "none", presetUsed |-> "none", prompt |-> <<>>,
          status |-> "none", generatedImageUrl |-> "null", errorMessage |-> "null",
          isPlaceholder |-> FALSE, processingEndTime |-> FALSE, created |-> "none"]

\* what generation.deleteOne() leaves: the _id is never given out again
Deleted == [NoGen EXCEPT !.created = "deleted"]

Terminal == {"completed", "failed"}

\* generationSchema.pre('save'): stamps processingEndTime when a save changes
\* status to a terminal value and no end time is set yet
PreSave(doc, statusModified) ==
    IF statusModified /\ doc.status \in Terminal /\ ~doc.processingEndTime
    THEN [doc EXCEPT !.processingEndTime = TRUE]
    ELSE doc

\* new Generation({ userId, presetUsed, prompt, generatedImageUrl,
\* status: 'completed', ... }) as the image-to-image route builds it; the
\* schema has no placeholder flag
NewGeneration(userId, presetUsed, prompt, imageUrl) ==
    [exists |-> TRUE, userId |-> userId, presetUsed |-> presetUsed, prompt |-> prompt,
     status |-> "completed", generatedImageUrl |-> imageUrl, errorMessage |-> "null",
     isPlaceholder |-> FALSE, processingEndTime |-> FALSE, created |-> "completed"]

\* generation.markCompleted(url)
markCompleted(doc, url) ==
    PreSave([doc EXCEPT !.generatedImageUrl = url, !.status = "completed",
                        !.processingEndTime = TRUE],
            doc.status # "completed")

\* generation.markFailed(message)
markFailed(doc, message) ==
    PreSave([doc EXCEPT !.status = "failed", !.errorMessage = message,
                        !.processingEndTime = TRUE],
            doc.status # "failed")

\* the reset POST /retry/:id applies to the document it loaded
RetryReset(doc) ==
    PreSave([doc EXCEPT !.status = "processing", !.errorMessage = "undefined",
                        !.generatedImageUrl = "null"],
            doc.status # "processing")

\* generation.save() of a loaded and reset document: the stored record
\* receives the paths whose value changed on the loaded copy
SaveReset(stored, loaded) ==
    LET new == RetryReset(loaded)
    IN  [stored EXCEPT
           !.status = IF new.status # loaded.status THEN new.status ELSE @,
           !.errorMessage = IF new.errorMessage # loaded.errorMessage
                            THEN new.errorMessage ELSE @,
           !.generatedImageUrl = IF new.generatedImageUrl # loaded.generatedImageUrl
                                 THEN new.generatedImageUrl ELSE @,
           !.processingEndTime = IF new.processingEndTime # loaded.processingEndTime
                                 THEN new.processingEndTime ELSE @]

\* ---------------------------------------------------- Gemini service model
\* what this.model.generateContent can do: answer with an image part, answer
\* without one, or throw an error whose message holds one of these words;
\* "ECONNRESET" stands for the words of the connection test (SSL, TLS,
\* ECONNRESET, ENOTFOUND, certificate), "timeout" for a message with none
ApiOutcomes == {"image", "noImage", "API key", "quota", "safety",
                "ECONNRESET", "timeout"}

\* the words the catch block treats as a connection error
ConnectionErrors == {"ECONNRESET"}

Thrown(message) == [threw |-> TRUE, imageUrl |-> "null", isPlaceholder |-> FALSE,
                    message |-> message]

\* generateLocalPlaceholder: a fresh /uploads/placeholder-* file, or a throw
\* when sharp cannot write it
generateLocalPlaceholder(sharpOk) ==
    IF sharpOk
    THEN [threw |-> FALSE, imageUrl |-> "placeholder", isPlaceholder |-> TRUE,
          message |-> "null"]
    ELSE Thrown("Failed to generate placeholder image")

\* GeminiService.generateImageFromImage: the result or the error it rethrows
generateImageFromImage(api, sharpOk) ==
    IF api = "image"
    THEN [threw |-> FALSE, imageUrl |-> "gemini", isPlaceholder |-> FALSE,
          message |-> "null"]
    ELSE IF api = "API key" THEN Thrown("Invalid or missing Gemini API key")
    ELSE IF api = "quota" THEN Thrown("Gemini API quota exceeded")
    ELSE IF api = "safety" THEN Thrown("Content blocked by safety filters")
    ELSE IF api \in ConnectionErrors THEN generateLocalPlaceholder(sharpOk)
    ELSE Thrown("Image-to-image generation failed")

\* the uploaded file's own URL, which the route calls originalImageUrl
originalImageUrl == "upload"

\* a route that answers 502 on a throw as it does on a result without image
RouteImageUrlThrow502(result) ==
    IF result.threw \/ result.imageUrl = "null" THEN "502" ELSE result.imageUrl

\* the image URL the route goes on with after the provider call; "502" stands
\* for the early return on a result without imageUrl
RouteImageUrl(result) ==
    IF result.threw THEN originalImageUrl
    ELSE IF result.imageUrl = "null" THEN "502"
    ELSE result.imageUrl

\* ------------------------------------------------------ prompt resolution
\* a text is a sequence of tokens; a placeholder, the uploaded image's URL
\* and each of "$$", "$&" are one token each, " " is white space
uploadedImageUrl == "<url>"

RECURSIVE Flatten(_)
Flatten(parts) == IF parts = <<>> THEN <<>> ELSE Head(parts) \o Flatten(Tail(parts))

Includes(s, token) == \E i \in 1..Len(s) : s[i] = token

\* String.prototype.trim
RECURSIVE TrimStart(_)
TrimStart(s) == IF s # <<>> /\ Head(s) = " " THEN TrimStart(Tail(s)) ELSE s

RECURSIVE TrimEnd(_)
TrimEnd(s) == IF s # <<>> /\ s[Len(s)] = " " THEN TrimEnd(SubSeq(s, 1, Len(s) - 1)) ELSE s

Trim(s) == TrimEnd(TrimStart(s))

\* a token that stands for a run of MaxPromptLength characters
LongText == "<1000 characters>"

\* String.prototype.length
RECURSIVE CharLength(_)
CharLength(s) ==
    IF s = <<>> THEN 0
    ELSE (IF Head(s) = LongText THEN MaxPromptLength ELSE Len(Head(s))) + CharLength(Tail(s))

\* the patterns /{image}/gi, /{image_url}/gi, /{image_path}/gi match in any
\* case, /\[IMAGE\]/g in upper case only
ImagePlaceholders == {"{image}", "{IMAGE}", "{image_url}", "{image_path}", "[IMAGE]"}

\* base.replace(pattern, uploadedImageUrl) for the four global patterns
ReplaceImagePlaceholders(base) ==
    [i \in 1..Len(base) |-> IF base[i] \in ImagePlaceholders THEN uploadedImageUrl
                                                             ELSE base[i]]

\* the replacement text String.prototype.replace builds from a string
\* replacement: $$ is a dollar sign, $& the match, $` and $' the text before
\* and after the match
GetSubstitution(replacement, matched, before, after) ==
    Flatten([i \in 1..Len(replacement) |->
                IF replacement[i] = "$$" THEN <<"$">>
                ELSE IF replacement[i] = "$&" THEN <<matched>>
                ELSE IF replacement[i] = "$`" THEN before
                ELSE IF replacement[i] = "$'" THEN after
                ELSE <<replacement[i]>>])

\* a replace that inserts the replacement as it is
ReplaceFirstVerbatim(s, token, replacement) ==
    IF ~Includes(s, token) THEN s
    ELSE LET i == CHOOSE j \in 1..Len(s) : s[j] = token /\ \A k \in 1..(j - 1) : s[k] # token
         IN  SubSeq(s, 1, i - 1) \o replacement \o SubSeq(s, i + 1, Len(s))

\* base.replace('{prompt}', prompt): a string pattern replaces the first match
ReplaceFirst(s, token, replacement) ==
    IF ~Includes(s, token) THEN s
    ELSE LET i == CHOOSE j \in 1..Len(s) : s[j] = token /\ \A k \in 1..(j - 1) : s[k] # token
             before == SubSeq(s, 1, i - 1)
             after == SubSeq(s, i + 1, Len(s))
         IN  before \o GetSubstitution(replacement, token, before, after) \o after

\* a suffix that leaves the image out
WithoutReference(text) == text \o <<", reference image: ">>

\* `${prompt}, reference image: ${uploadedImageUrl}`
WithReference(text) == text \o <<", reference image: ", uploadedImageUrl>>

\* the prompt a found preset yields from its main_prompt
ApplyTemplate(mainPrompt, prompt) ==
    LET replaced == ReplaceImagePlaceholders(mainPrompt)
        filled == IF Includes(replaced, "{prompt}")
                  THEN ReplaceFirst(replaced, "{prompt}", prompt)
                  ELSE replaced
        referenced == IF ~Includes(filled, uploadedImageUrl)
                      THEN Trim(WithReference(filled))
                      ELSE filled
    IN  IF ~Includes(mainPrompt, "{prompt}") /\ Trim(prompt) # <<>>
        THEN referenced \o <<", ">> \o prompt
        ELSE referenced

\* --------------------------------------------------------------- presets
\* the enum of generationSchema.presetUsed
PresetUsedEnum ==
    {"portrait-enhancement", "artistic-landscape", "modern-architecture",
     "fantasy-character", "abstract-geometry", "product-shot", "editing",
     "background", "retouch", "portrait", "lighting", "90s movie", "1970s suit",
     "black and white close-up portrait", "Paris Travel", "Statue of Liberty",
     "Taj Mahal at sunrise", "Great Wall of China", "Eiffel Tower",
     "top of the Hollywood Sign", "reimagined in the 90s",
     "80s character with big hair", "1970s disco look", "custom"}

\* maxlength of generationSchema.prompt
MaxStoredPromptLength == 2000

\* the validation generation.save() runs on the route's document: prompt is
\* required and at most 2000 characters, presetUsed is one of the enum
ValidGeneration(doc) ==
    /\ doc.prompt # <<>>
    /\ CharLength(doc.prompt) <= MaxStoredPromptLength
    /\ doc.presetUsed \in PresetUsedEnum

\* what a lookup that finds nothing yields; "" stands for a missing or empty
\* string property
NoPresetData == [found |-> FALSE, id |-> "", name |-> "", category |-> "",
                 main_prompt |-> <<>>]

PresetData(id, name, category, mainPrompt) ==
    [found |-> TRUE, id |-> id, name |-> name, category |-> category,
     main_prompt |-> mainPrompt]

FALLBACK_PRESETS ==
    [k \in {"realistic-portrait", "artistic-landscape", "modern-architecture"} |->
        IF k = "realistic-portrait"
        THEN PresetData(k, "Realistic Portrait", "portrait",
               <<"professional portrait photography, high quality, realistic, detailed facial features, natural lighting">>)
        ELSE IF k = "artistic-landscape"
        THEN PresetData(k, "Artistic Landscape", "landscape",
               <<"beautiful landscape, artistic style, vibrant colors, detailed scenery, professional photography">>)
        ELSE PresetData(k, "Modern Architecture", "architecture",
               <<"modern architecture, contemporary design, clean lines, professional architectural photography">>)]

\* FALLBACK_PRESETS[preset]: an own key, or a property every object inherits
\* ("constructor" is the function Object, whose name is "Object")
FallbackByKey(preset) ==
    IF preset \in DOMAIN FALLBACK_PRESETS THEN FALLBACK_PRESETS[preset]
    ELSE IF preset = "constructor" THEN PresetData("", "Object", "", <<>>)
    ELSE NoPresetData

\* prompts.find(p => p.id === preset || p.name === preset)
FindPreset(prompts, preset) ==
    IF \E i \in 1..Len(prompts) : prompts[i].id = preset \/ prompts[i].name = preset
    THEN prompts[CHOOSE i \in 1..Len(prompts) :
                    /\ prompts[i].id = preset \/ prompts[i].name = preset
                    /\ \A j \in 1..(i - 1) :
                          prompts[j].id # preset /\ prompts[j].name # preset]
    ELSE NoPresetData

\* Object.values(FALLBACK_PRESETS), in insertion order
FallbackValues ==
    <<FALLBACK_PRESETS["realistic-portrait"], FALLBACK_PRESETS["artistic-landscape"],
      FALLBACK_PRESETS["modern-architecture"]>>

\* PromptMatcher.loadPrompts: one prompt per CSV row that has a category and
\* a main_prompt, its id numbered by the prompts kept so far
RECURSIVE LoadRows(_, _)
LoadRows(rows, prompts) ==
    IF rows = <<>> THEN prompts
    ELSE LET row == Head(rows)
             prompt == PresetData(row.category \o "_" \o ToString(Len(prompts) + 1),
                                  row.category, row.category, row.main_prompt)
         IN  IF row.category # "" /\ row.main_prompt # <<>>
             THEN LoadRows(Tail(rows), Append(prompts, prompt))
             ELSE LoadRows(Tail(rows), prompts)

loadPrompts(csv) == LoadRows(csv, <<>>)

\* the lookup of the route: catalog first, then the built-in table by key,
\* then the built-in table by id or name
LookupPreset(prompts, preset) ==
    LET inCatalog == FindPreset(prompts, preset)
        byKey == FallbackByKey(preset)
    IN  IF inCatalog.found THEN inCatalog
        ELSE IF byKey.found THEN byKey
        ELSE FindPreset(FallbackValues, preset)

\* presetData.name || presetData.category || preset
NormalizedPreset(presetData, preset) ==
    IF presetData.name # "" THEN presetData.name
    ELSE IF presetData.category # "" THEN presetData.category
    ELSE preset

\* lines 237-293 for a request with a preset: the prompt sent on, the name
\* written as presetUsed, and whether a preset was found; csvThrows is a
\* getAllPrompts that rejects
ResolvePreset(prompt, preset, csv, csvThrows) ==
    LET presetData == LookupPreset(loadPrompts(csv), preset)
    IN  IF csvThrows \/ ~presetData.found
        THEN [finalPrompt |-> WithReference(prompt), normalizedPreset |-> preset,
              found |-> FALSE, main_prompt |-> <<>>]
        ELSE [finalPrompt |-> ApplyTemplate(presetData.main_prompt, prompt),
              main_prompt |-> presetData.main_prompt,
              normalizedPreset |-> NormalizedPreset(presetData, preset),
              found |-> TRUE]

\* ------------------------------------------------------------- handlers
\* the JSON body of a response, as far as the success response fills it
NoBody == [success |-> FALSE, id |-> "none", imageUrl |-> "none",
           generationsUsed |-> 0, generationsLimit |-> 0, generationsRemaining |-> 0]

\* a handler slot before its request arrives; Session(u) is a slot whose
\* request the auth middleware will attribute to user u (req.user)
\* req.body.prompt: absent, or a text with its length and trimmed length
NoPrompt == [present |-> FALSE, length |-> 0, trimmed |-> 0, text |-> <<>>]

Body(text) == [present |-> TRUE, length |-> CharLength(text),
               trimmed |-> CharLength(Trim(text)), text |-> text]

\* req.body.preset absent or empty
NoPreset == ""

Idle == [kind |-> "idle", pc |-> "idle", user |-> "none", userTier |-> "free",
         prompt |-> NoPrompt, preset |-> NoPreset, normalizedPreset |-> "custom",
         presetFound |-> FALSE, mainPrompt |-> <<>>, finalPrompt |-> <<>>, sentPrompt |-> <<>>,
         catalogError |-> FALSE, saveError |-> "none",
         hasFile |-> FALSE, quota |-> NoQuota, ret |-> "none", resp |-> "none",
         outcome |-> "none", imageUrl |-> "none", isPlaceholder |-> FALSE,
         echoedInput |-> FALSE, genId |-> 0, genWrite |-> "none",
         generation |-> NoGen, body |-> NoBody, connected |-> TRUE]

Session(u) == [Idle EXCEPT !.user = u]

Set(p, r) == proc' = [proc EXCEPT ![p] = r]

\* ------------------------------------------------ Quota.getTodayQuota steps
\* the findOne and the branch taken on its result
GtqFind(p) ==
    /\ proc[p].pc = "gtq.find"
    /\ LET limit == TierLimit(env, proc[p].userTier)
           found == findOne(quotas, proc[p].user, today)
       IN  IF ~found.exists
           THEN Set(p, [proc[p] EXCEPT !.quota = NewQuota(today, limit), !.pc = "gtq.create"])
           ELSE IF found.generationsLimit # limit
           THEN Set(p, [proc[p] EXCEPT !.quota = [found EXCEPT !.generationsLimit = limit],
                                       !.pc = "gtq.saveLimit"])
           ELSE Set(p, [proc[p] EXCEPT !.quota = found, !.pc = proc[p].ret])
    /\ UNCHANGED <<config, quotas, gens>>

\* this.create(...) under the unique (userId, date) index: a record inserted
\* in the meantime makes the insert fail with E11000, which no caller catches
GtqCreate(p) ==
    /\ proc[p].pc = "gtq.create"
    /\ IF findOne(quotas, proc[p].user, proc[p].quota.date).exists
       THEN /\ Set(p, [proc[p] EXCEPT !.pc = "done", !.resp = "E11000"])
            /\ UNCHANGED quotas
       ELSE /\ quotas' = [quotas EXCEPT ![<<proc[p].user, proc[p].quota.date>>] = proc[p].quota]
            /\ Set(p, [proc[p] EXCEPT !.pc = proc[p].ret])
    /\ UNCHANGED <<config, gens>>

\* quota.save() after the limit was brought to the tier's
GtqSaveLimit(p) ==
    /\ proc[p].pc = "gtq.saveLimit"
    /\ quotas' = SaveLimit(quotas, proc[p].user, proc[p].quota)
    /\ Set(p, [proc[p] EXCEPT !.pc = proc[p].ret])
    /\ UNCHANGED <<config, gens>>

getTodayQuota(p) == GtqFind(p) \/ GtqCreate(p) \/ GtqSaveLimit(p)

\* a call Quota.getTodayQuota(userId, userTier) made on its own
GtqStart(p, userTier) ==
    /\ proc[p].kind = "idle"
    /\ Set(p, [proc[p] EXCEPT !.kind = "gtq", !.pc = "gtq.find",
                              !.userTier = userTier, !.ret = "gtq.return"])
    /\ UNCHANGED <<config, quotas, gens>>

\* return quota
GtqReturn(p) ==
    /\ proc[p].pc = "gtq.return"
    /\ Set(p, [proc[p] EXCEPT !.pc = "done", !.resp = "ok"])
    /\ UNCHANGED <<config, quotas, gens>>

\* midnight, server-local time: new Date() followed by setHours(0, 0, 0, 0)
\* yields the next calendar day from now on
NewDay ==
    /\ today < MaxDay
    /\ today' = today + 1
    /\ UNCHANGED <<env, tier, geminiService, quotas, gens, proc>>

\* ----------------------------------------------- Quota.incrementUsage steps
\* the check on the document getTodayQuota returned, and the local increment
IncCheck(p) ==
    /\ proc[p].pc = "inc.check"
    /\ IF Exceeded(proc[p].quota)
       THEN Set(p, [proc[p] EXCEPT !.pc = "done", !.resp = "limit exceeded"])
       ELSE Set(p, [proc[p] EXCEPT !.quota = Charged(@), !.pc = "inc.save"])
    /\ UNCHANGED <<config, quotas, gens>>

\* await quota.save(); return quota
IncSave(p) ==
    /\ proc[p].pc = "inc.save"
    /\ quotas' = SaveUsed(quotas, proc[p].user, proc[p].quota)
    /\ Set(p, [proc[p] EXCEPT !.pc = "done", !.resp = "ok"])
    /\ UNCHANGED <<config, gens>>

incrementUsage(p) == IncCheck(p) \/ IncSave(p)

\* a call Quota.incrementUsage(userId) as it enters getTodayQuota
IncCall(u) == [Idle EXCEPT !.kind = "inc", !.pc = "gtq.find", !.user = u,
                           !.userTier = "free", !.ret = "inc.check"]

\* ------------------------------------------ POST /api/generate/image-to-image
\* request bodies: prompt absent, empty, blank, of the longest accepted
\* length, one character longer
Prompts == { NoPrompt, Body(<<>>), Body(<<" ", " ", " ">>), Body(<<LongText>>),
             Body(<<LongText, "a">>) }

\* a validation without the length test
ValidateAnyLength(prompt, hasFile) ==
    IF ~prompt.present \/ prompt.length = 0 \/ prompt.trimmed = 0 THEN "400 prompt"
    ELSE IF ~hasFile THEN "400 file"
    ELSE "ok"

\* the three validation returns, in the order the route makes them
Validate(prompt, hasFile) ==
    IF ~prompt.present \/ prompt.length = 0 \/ prompt.trimmed = 0 THEN "400 prompt"
    ELSE IF ~hasFile THEN "400 file"
    ELSE IF prompt.length > MaxPromptLength THEN "400 length"
    ELSE "ok"

\* what follows the prompt resolution up to the next await: without a
\* configured service the uploaded image is the result and quota.save() is next
AfterPrompt(r) ==
    IF geminiService
    THEN [r EXCEPT !.pc = "i2i.provider"]
    ELSE [r EXCEPT !.imageUrl = originalImageUrl, !.pc = "i2i.charge"]

\* what follows a passed quota check up to the next await: with a preset the
\* catalog is awaited, without one the prompt is final at once
AfterCheck(r) ==
    IF r.preset # NoPreset
    THEN [r EXCEPT !.normalizedPreset = r.preset, !.pc = "i2i.preset"]
    ELSE AfterPrompt([r EXCEPT !.finalPrompt = WithReference(r.prompt.text)])

\* the quota check with > in place of >=: one request too many gets through
QuotaCheckOffByOne(r) ==
    IF r.quota.generationsUsed > r.quota.generationsLimit
    THEN [r EXCEPT !.pc = "done", !.resp = "429"]
    ELSE AfterCheck(r)

\* the check `quota.generationsUsed >= quota.generationsLimit` and its 429
QuotaCheck(r) ==
    IF Exceeded(r.quota)
    THEN [r EXCEPT !.pc = "done", !.resp = "429"]
    ELSE AfterCheck(r)

\* the request arrives: validation, then User.findById
I2IStart(p, prompt, hasFile, preset) ==
    /\ proc[p].kind = "idle"
    /\ LET v == Validate(prompt, hasFile)
           r == [proc[p] EXCEPT !.kind = "i2i", !.prompt = prompt, !.hasFile = hasFile,
                                !.preset = preset]
       IN  IF v # "ok"
           THEN Set(p, [r EXCEPT !.pc = "done", !.resp = v])
           ELSE Set(p, [r EXCEPT !.userTier = tier[proc[p].user],
                                 !.pc = "i2i.findQuota"])
    /\ UNCHANGED <<config, quotas, gens>>

\* Quota.findOne({ userId, date: today }) and the quota check on its result
I2IFindQuota(p) ==
    /\ proc[p].pc = "i2i.findQuota"
    /\ LET found == findOne(quotas, proc[p].user, today)
       IN  IF found.exists
           THEN Set(p, QuotaCheck([proc[p] EXCEPT !.quota = found]))
           ELSE Set(p, [proc[p] EXCEPT !.quota = NewQuota(today, RouteLimit(proc[p].userTier)),
                                       !.pc = "i2i.createQuota"])
    /\ UNCHANGED <<config, quotas, gens>>

\* quota.save() of the new Quota; E11000 from the unique index lands in the
\* route's catch, whose message test maps it to 429
I2ICreateQuota(p) ==
    /\ proc[p].pc = "i2i.createQuota"
    /\ IF findOne(quotas, proc[p].user, proc[p].quota.date).exists
       THEN /\ Set(p, [proc[p] EXCEPT !.pc = "done", !.resp = "429 catch"])
            /\ UNCHANGED quotas
       ELSE /\ quotas' = [quotas EXCEPT ![<<proc[p].user, proc[p].quota.date>>] = proc[p].quota]
            /\ Set(p, QuotaCheck(proc[p]))
    /\ UNCHANGED <<config, gens>>

\* a preset branch without its try/catch: a rejected catalog lookup reaches
\* the outer catch of the route
I2IPresetUncaught(p, csv, csvThrows) ==
    /\ proc[p].pc = "i2i.preset"
    /\ LET resolved == ResolvePreset(proc[p].prompt.text, proc[p].preset, csv, csvThrows)
       IN  IF csvThrows
           THEN Set(p, [proc[p] EXCEPT !.catalogError = TRUE, !.pc = "done", !.resp = "500"])
           ELSE Set(p, AfterPrompt([proc[p] EXCEPT
                                      !.finalPrompt = resolved.finalPrompt,
                                      !.normalizedPreset = resolved.normalizedPreset,
                                      !.presetFound = resolved.found,
                                      !.mainPrompt = resolved.main_prompt]))
    /\ UNCHANGED <<config, quotas, gens>>

\* promptMatcher.getAllPrompts() resolves with the prompts loaded from the CSV
\* file or rejects; the preset lookup and the template follow
I2IPreset(p, csv, csvThrows) ==
    /\ proc[p].pc = "i2i.preset"
    /\ LET resolved == ResolvePreset(proc[p].prompt.text, proc[p].preset, csv, csvThrows)
       IN  Set(p, AfterPrompt([proc[p] EXCEPT
                                 !.catalogError = csvThrows,
                                 !.finalPrompt = resolved.finalPrompt,
                                 !.normalizedPreset = resolved.normalizedPreset,
                                 !.presetFound = resolved.found,
                                 !.mainPrompt = resolved.main_prompt]))
    /\ UNCHANGED <<config, quotas, gens>>

\* geminiImageService.generateImageFromImage is called with finalPrompt and
\* returns or throws
I2IProvider(p, api, sharpOk) ==
    /\ proc[p].pc = "i2i.provider"
    /\ LET result == generateImageFromImage(api, sharpOk)
           url == RouteImageUrl(result)
       IN  IF url = "502"
           THEN Set(p, [proc[p] EXCEPT !.outcome = api, !.pc = "done", !.resp = "502",
                                       !.sentPrompt = proc[p].finalPrompt])
           ELSE Set(p, [proc[p] EXCEPT !.outcome = api, !.imageUrl = url,
                                       !.sentPrompt = proc[p].finalPrompt,
                                       !.isPlaceholder = result.isPlaceholder,
                                       !.pc = "i2i.charge"])
    /\ UNCHANGED <<config, quotas, gens>>

\* the client goes away while the provider call is in flight or after it,
\* before the response; the route listens to no close or aborted event
Disconnect(p) ==
    /\ proc[p].kind = "i2i" /\ proc[p].connected
    /\ \/ proc[p].pc = "i2i.provider"
       \/ proc[p].pc \in {"i2i.charge", "i2i.saveGen"} /\ proc[p].outcome # "none"
    /\ Set(p, [proc[p] EXCEPT !.connected = FALSE])
    /\ UNCHANGED <<config, quotas, gens>>

\* a handler that stops before the charge once its client is gone
I2IChargeIfConnected(p) ==
    /\ proc[p].pc = "i2i.charge"
    /\ proc[p].connected
    /\ LET doc == Charged(proc[p].quota)
       IN  /\ quotas' = SaveUsed(quotas, proc[p].user, doc)
           /\ Set(p, [proc[p] EXCEPT !.quota = doc,
                                     !.echoedInput = (proc[p].imageUrl = originalImageUrl),
                                     !.pc = "i2i.saveGen"])
    /\ UNCHANGED <<config, gens>>

\* quota.generationsUsed += 1; await quota.save(); then the echo test
I2ICharge(p) ==
    /\ proc[p].pc = "i2i.charge"
    /\ LET doc == Charged(proc[p].quota)
       IN  /\ quotas' = SaveUsed(quotas, proc[p].user, doc)
           /\ Set(p, [proc[p] EXCEPT !.quota = doc,
                                     !.echoedInput = (proc[p].imageUrl = originalImageUrl),
                                     !.pc = "i2i.saveGen"])
    /\ UNCHANGED <<config, gens>>

\* a fresh _id: the first one no record has had
FreeGenId == CHOOSE g \in GenIds : /\ gens[g] = NoGen
                                   /\ \A h \in GenIds : h < g => gens[h] # NoGen

\* res.json({ success: true, generation: {...}, quota: {...} }) built from
\* the saved document or from the stand-in { _id: 'temp-id', ... }
SuccessBody(id, generatedImageUrl, quota) ==
    [success |-> TRUE, id |-> id, imageUrl |-> generatedImageUrl,
     generationsUsed |-> quota.generationsUsed,
     generationsLimit |-> quota.generationsLimit,
     generationsRemaining |-> generationsRemaining(quota)]

\* the document the route builds for the Generation record
RouteGeneration(r) == NewGeneration(r.user, r.normalizedPreset, r.finalPrompt, r.imageUrl)

\* what a failed generation.save() threw
SaveError(doc) == IF ValidGeneration(doc) THEN "storage" ELSE "ValidationError"

\* a handler whose failed record write goes to the outer catch
I2ISaveGenFatal(p, saved) ==
    /\ proc[p].pc = "i2i.saveGen"
    /\ IF saved /\ ValidGeneration(RouteGeneration(proc[p]))
       THEN /\ gens' = [gens EXCEPT ![FreeGenId] = PreSave(RouteGeneration(proc[p]), TRUE)]
            /\ Set(p, [proc[p] EXCEPT !.genId = FreeGenId, !.genWrite = "saved",
                                      !.pc = "done", !.resp = "200",
                                      !.body = SuccessBody(ToString(FreeGenId),
                                                           proc[p].imageUrl, proc[p].quota)])
       ELSE /\ UNCHANGED gens
            /\ Set(p, [proc[p] EXCEPT !.genWrite = "failed", !.pc = "done", !.resp = "500",
                                      !.saveError = SaveError(RouteGeneration(proc[p]))])
    /\ UNCHANGED <<config, quotas>>

\* generation.save() succeeds or throws (validation, storage); either way the
\* success response follows
I2ISaveGen(p, saved) ==
    /\ proc[p].pc = "i2i.saveGen"
    /\ IF saved /\ ValidGeneration(RouteGeneration(proc[p]))
       THEN /\ gens' = [gens EXCEPT ![FreeGenId] = PreSave(RouteGeneration(proc[p]), TRUE)]
            /\ Set(p, [proc[p] EXCEPT !.genId = FreeGenId, !.genWrite = "saved",
                                      !.pc = "done", !.resp = "200",
                                      !.body = SuccessBody(ToString(FreeGenId),
                                                           proc[p].imageUrl, proc[p].quota)])
       ELSE /\ UNCHANGED gens
            /\ Set(p, [proc[p] EXCEPT !.genWrite = "failed", !.pc = "done", !.resp = "200",
                                      !.saveError = SaveError(RouteGeneration(proc[p])),
                                      !.body = SuccessBody("temp-id", proc[p].imageUrl,
                                                           proc[p].quota)])
    /\ UNCHANGED <<config, quotas>>

\* ------------------------------------------- POST /api/generate/retry/:id
\* a lookup by _id alone, which finds other users' records
RetryStartAnyOwner(p, g) ==
    /\ proc[p].kind = "idle"
    /\ LET r == [proc[p] EXCEPT !.kind = "retry", !.genId = g]
       IN  IF ~gens[g].exists
           THEN Set(p, [r EXCEPT !.pc = "done", !.resp = "404"])
           ELSE IF gens[g].status # "failed"
           THEN Set(p, [r EXCEPT !.pc = "done", !.resp = "400"])
           ELSE Set(p, [r EXCEPT !.generation = gens[g], !.userTier = "free",
                                 !.pc = "gtq.find", !.ret = "retry.can"])
    /\ UNCHANGED <<config, quotas, gens>>

\* Generation.findOne({ _id, userId }) and the two rejections on its result
RetryStart(p, g) ==
    /\ proc[p].kind = "idle"
    /\ LET r == [proc[p] EXCEPT !.kind = "retry", !.genId = g]
       IN  IF ~gens[g].exists \/ gens[g].userId # proc[p].user
           THEN Set(p, [r EXCEPT !.pc = "done", !.resp = "404"])
           ELSE IF gens[g].status # "failed"
           THEN Set(p, [r EXCEPT !.pc = "done", !.resp = "400"])
           ELSE Set(p, [r EXCEPT !.generation = gens[g], !.userTier = "free",
                                 !.pc = "gtq.find", !.ret = "retry.can"])
    /\ UNCHANGED <<config, quotas, gens>>

\* canUserGenerate's result decides between the 429 branch and the reset
RetryCan(p) ==
    /\ proc[p].pc = "retry.can"
    /\ IF ~Exceeded(proc[p].quota)
       THEN Set(p, [proc[p] EXCEPT !.pc = "retry.save"])
       ELSE Set(p, [proc[p] EXCEPT !.pc = "gtq.find", !.ret = "retry.429"])
    /\ UNCHANGED <<config, quotas, gens>>

\* a 429 branch that writes the reset it did not make before answering
Retry429Resetting(p) ==
    /\ proc[p].pc = "retry.429"
    /\ gens' = [gens EXCEPT ![proc[p].genId] = SaveReset(@, proc[p].generation)]
    /\ Set(p, [proc[p] EXCEPT !.pc = "done", !.resp = "429"])
    /\ UNCHANGED <<config, quotas>>

\* the 429 answer with the quota getTodayQuota returned
Retry429(p) ==
    /\ proc[p].pc = "retry.429"
    /\ Set(p, [proc[p] EXCEPT !.pc = "done", !.resp = "429"])
    /\ UNCHANGED <<config, quotas, gens>>

\* generation.save() of the reset document; on a record deleted in the
\* meantime the update matches nothing, and the save throws
\* DocumentNotFoundError or passes silently, by the Mongoose version
RetrySave(p) ==
    /\ proc[p].pc = "retry.save"
    /\ IF gens[proc[p].genId].exists
       THEN /\ gens' = [gens EXCEPT ![proc[p].genId] = SaveReset(@, proc[p].generation)]
            /\ Set(p, [proc[p] EXCEPT !.generation = RetryReset(@),
                                      !.pc = "done", !.resp = "200"])
       ELSE /\ UNCHANGED gens
            /\ \E answer \in {"500", "200"} :
                  Set(p, [proc[p] EXCEPT !.generation = RetryReset(@),
                                        !.pc = "done", !.resp = answer])
    /\ UNCHANGED <<config, quotas>>

\* ------------------------------------------- GET /api/generate/status/:id
\* Generation.findOne({ _id, userId }) and the answer
StatusGet(p, g) ==
    /\ proc[p].kind = "idle"
    /\ LET r == [proc[p] EXCEPT !.kind = "status", !.genId = g, !.pc = "done"]
       IN  IF ~gens[g].exists \/ gens[g].userId # proc[p].user
           THEN Set(p, [r EXCEPT !.resp = "404"])
           ELSE Set(p, [r EXCEPT !.generation = gens[g], !.resp = "200"])
    /\ UNCHANGED <<config, quotas, gens>>

\* --------------------------------------- DELETE /api/user/generations/:id
\* Generation.findOne({ _id, userId })
DeleteStart(p, g) ==
    /\ proc[p].kind = "idle"
    /\ LET r == [proc[p] EXCEPT !.kind = "delete", !.genId = g]
       IN  IF ~gens[g].exists \/ gens[g].userId # proc[p].user
           THEN Set(p, [r EXCEPT !.pc = "done", !.resp = "404"])
           ELSE Set(p, [r EXCEPT !.generation = gens[g], !.pc = "delete.one"])
    /\ UNCHANGED <<config, quotas, gens>>

\* generation.deleteOne(): removes the record of the loaded _id, if still there
DeleteOne(p) ==
    /\ proc[p].pc = "delete.one"
    /\ gens' = [gens EXCEPT ![proc[p].genId] = IF @.exists THEN Deleted ELSE @]
    /\ Set(p, [proc[p] EXCEPT !.pc = "done", !.resp = "200"])
    /\ UNCHANGED <<config, quotas>>

\* ------------------------------------------------- GET /api/user/quota
\* Quota.getTodayQuota(req.user._id), with the default tier
QuotaStart(p) ==
    /\ proc[p].kind = "idle"
    /\ Set(p, [proc[p] EXCEPT !.kind = "quota", !.pc = "gtq.find",
                              !.userTier = "free", !.ret = "quota.respond"])
    /\ UNCHANGED <<config, quotas, gens>>

\* res.json({ quota: {...}, user: {...} })
QuotaRespond(p) ==
    /\ proc[p].pc = "quota.respond"
    /\ Set(p, [proc[p] EXCEPT !.pc = "done", !.resp = "200",
                              !.body = SuccessBody("none", "none", proc[p].quota)])
    /\ UNCHANGED <<config, quotas, gens>>

\* ------------------------------------ Generation instance methods, applied
MarkCompleted(g) ==
    /\ gens[g].exists
    /\ gens' = [gens EXCEPT ![g] = markCompleted(@, "gemini")]
    /\ UNCHANGED <<config, quotas, proc>>

MarkFailed(g) ==
    /\ gens[g].exists
    /\ gens' = [gens EXCEPT ![g] = markFailed(@, "error")]
    /\ UNCHANGED <<config, quotas, proc>>

\* --------------------------------------------------------- initial states
EmptyQuotas == [k \in Users \X Days |-> NoQuota]
EmptyGens == [g \in GenIds |-> NoGen]

\* NumCalls concurrent incrementUsage calls for one user, whose record for
\* today is absent or has generationsUsed = 0
InitInc ==
    /\ env \in [free : 0..MaxEnvLimit, paid : {0}]
    /\ today = 0
    /\ tier = [u \in Users |-> "free"]
    /\ geminiService = TRUE
    /\ gens = EmptyGens
    /\ \E u \in Users, had \in BOOLEAN,
          lim \in {TierLimit(env, "free"), TierLimit(env, "paid")} :
          /\ quotas = IF had
                      THEN [EmptyQuotas EXCEPT ![<<u, 0>>] = NewQuota(0, lim)]
                      ELSE EmptyQuotas
          /\ proc = [c \in Calls |-> IncCall(u)]

NextInc == \E c \in Calls : getTodayQuota(c) \/ incrementUsage(c)

SpecInc == InitInc /\ [][NextInc]_vars

\* getTodayQuota calls for one user across midnight; her record of the first
\* day is absent or holds some usage, under the limit of either tier
InitDay ==
    /\ env \in [free : 0..MaxEnvLimit, paid : {0}]
    /\ today = 0
    /\ tier = [u \in Users |-> "free"]
    /\ geminiService = TRUE
    /\ gens = EmptyGens
    /\ \E had \in BOOLEAN, used \in 0..MaxEnvLimit,
          lim \in {TierLimit(env, "free"), TierLimit(env, "paid")} :
          /\ used <= lim
          /\ quotas = IF had
                      THEN [EmptyQuotas EXCEPT ![<<"alice", 0>>] =
                              [NewQuota(0, lim) EXCEPT !.generationsUsed = used]]
                      ELSE EmptyQuotas
    /\ proc = [p \in Procs |-> Session("alice")]

NextDay ==
    \/ \E p \in Procs :
          \/ \E userTier \in Tiers : GtqStart(p, userTier)
          \/ getTodayQuota(p)
          \/ GtqReturn(p)
    \/ NewDay

SpecDay == InitDay /\ [][NextDay]_vars

\* a completed Generation of an earlier request
EarlierGen(u) ==
    PreSave(NewGeneration(u, "custom", WithReference(<<LongText>>), "gemini"), TRUE)

\* today's quota of user u as an earlier request of the day left it
EarlierQuota(u, used) ==
    [EmptyQuotas EXCEPT ![<<u, 0>>] =
        [NewQuota(0, RouteLimit(tier[u])) EXCEPT !.generationsUsed = used]]

\* requests of one user, free or paid, with or without a configured
\* service; her quota for today is absent, one short of its limit or at it
Init ==
    /\ env = [free |-> 0, paid |-> 0]
    /\ today = 0
    /\ \E t \in Tiers : tier = [u \in Users |-> IF u = "alice" THEN t ELSE "free"]
    /\ geminiService \in BOOLEAN
    /\ gens = EmptyGens
    /\ \E used \in {-1, RouteLimit(tier["alice"]) - 1, RouteLimit(tier["alice"])} :
          quotas = IF used < 0 THEN EmptyQuotas ELSE EarlierQuota("alice", used)
    /\ (tier["alice"] = "paid" => geminiService)
    /\ proc = [p \in Procs |-> Session("alice")]

imageToImage(p) ==
    \/ \E prompt \in Prompts, hasFile \in BOOLEAN : I2IStart(p, prompt, hasFile, NoPreset)
    \/ I2IFindQuota(p) \/ I2ICreateQuota(p)
    \/ \E api \in ApiOutcomes, sharpOk \in BOOLEAN : I2IProvider(p, api, sharpOk)
    \/ I2ICharge(p)
    \/ \E saved \in BOOLEAN : I2ISaveGen(p, saved)

retry(p) ==
    \/ \E g \in GenIds : RetryStart(p, g)
    \/ getTodayQuota(p) \/ RetryCan(p) \/ Retry429(p) \/ RetrySave(p)

Next == \E p \in Procs : imageToImage(p)

Spec == Init /\ [][Next]_vars

\* two users side by side, each with a Generation and bob with usage of
\* today; odd handler slots serve alice, even ones bob
InitOwn ==
    /\ env = [free |-> 0, paid |-> 0]
    /\ today = 0
    /\ \E t \in Tiers : tier = [u \in Users |-> IF u = "alice" THEN t ELSE "free"]
    /\ geminiService = TRUE
    /\ gens = [EmptyGens EXCEPT ![1] = EarlierGen("bob"), ![2] = EarlierGen("alice")]
    /\ \E used \in {-1, RouteLimit(tier["alice"])} :
          quotas = [(IF used < 0 THEN EmptyQuotas ELSE EarlierQuota("alice", used))
                      EXCEPT ![<<"bob", 0>>] =
                         [NewQuota(0, RouteLimit("free")) EXCEPT !.generationsUsed = 1]]
    /\ proc = [p \in Procs |-> Session(IF p % 2 = 1 THEN "alice" ELSE "bob")]

status(p) == \E g \in GenIds : StatusGet(p, g)

deleteGeneration(p) == (\E g \in GenIds : DeleteStart(p, g)) \/ DeleteOne(p)

quotaRead(p) == QuotaStart(p) \/ getTodayQuota(p) \/ QuotaRespond(p)

NextOwn ==
    \/ \E p \in Procs :
          imageToImage(p) \/ retry(p) \/ status(p) \/ deleteGeneration(p) \/ quotaRead(p)
    \/ \E g \in GenIds : MarkFailed(g)

SpecOwn == InitOwn /\ [][NextOwn]_vars

\* image-to-image requests whose clients may go away, every handler in
\* flight taking its next step
NextClient == Next \/ \E p \in Procs : Disconnect(p)

SpecClient ==
    Init /\ [][NextClient]_vars /\ \A p \in Procs : WF_vars(imageToImage(p))

\* the life of Generation records: requests, retries and the instance
\* methods, with a Generation of an earlier day in store
InitLife ==
    /\ env = [free |-> 0, paid |-> 0]
    /\ today = 0
    /\ \E t \in Tiers : tier = [u \in Users |-> IF u = "alice" THEN t ELSE "free"]
    /\ geminiService \in BOOLEAN
    /\ gens = [EmptyGens EXCEPT ![1] = EarlierGen("alice")]
    /\ \E used \in {-1, RouteLimit(tier["alice"]) - 1, RouteLimit(tier["alice"])} :
          quotas = IF used < 0 THEN EmptyQuotas ELSE EarlierQuota("alice", used)
    /\ proc = [p \in Procs |-> Session("alice")]

NextLife ==
    \/ \E p \in Procs : imageToImage(p) \/ retry(p)
    \/ \E g \in GenIds : MarkCompleted(g) \/ MarkFailed(g)

SpecLife == InitLife /\ [][NextLife]_vars

\* the same, where every handler in flight takes its next step; nothing in
\* the program schedules markCompleted or markFailed
SpecLifeFair ==
    SpecLife /\ \A p \in Procs : WF_vars(imageToImage(p) \/ retry(p))

\* one request at a time, with the prompts, presets and catalog files that
\* exercise the prompt resolution
PresetProcs == {1}

PresetPrompts ==
    { Body(<<>>), Body(<<"sunset">>), Body(<<"US", "$$", "5">>), Body(<<"a", "$&">>),
      Body(<<" ", "sunset", " ">>) }

Presets ==
    { NoPreset, "realistic-portrait", "Artistic Landscape", "modern-architecture",
      "constructor", "editing", "editing_1", "lighting", "retouch", "background",
      "cinematic", "unknown" }

\* master_prompts.csv: absent or empty, or with rows of which one lacks its
\* category
CsvFiles ==
    { <<>>,
      << [category |-> "editing",
          main_prompt |-> <<"edit ", "{image}", " so that ", "{prompt}">>],
         [category |-> "", main_prompt |-> <<"no category">>],
         [category |-> "lighting", main_prompt |-> <<"soft light">>],
         [category |-> "retouch",
          main_prompt |-> <<"{prompt}", " and once more ", "{prompt}">>],
         [category |-> "background",
          main_prompt |-> <<"replace the background of ", "[IMAGE]", " ">>],
         [category |-> "cinematic", main_prompt |-> <<"{IMAGE}", " as a film still">>] >> }

InitPreset ==
    /\ env = [free |-> 0, paid |-> 0]
    /\ today = 0
    /\ tier = [u \in Users |-> "free"]
    /\ geminiService \in BOOLEAN
    /\ gens = EmptyGens
    /\ \E used \in {-1, RouteLimit("free") - 1} :
          quotas = IF used < 0 THEN EmptyQuotas ELSE EarlierQuota("alice", used)
    /\ proc = [p \in PresetProcs |-> Session("alice")]

imageToImageWithPreset(p) ==
    \/ \E prompt \in PresetPrompts, hasFile \in BOOLEAN, preset \in Presets :
          I2IStart(p, prompt, hasFile, preset)
    \/ I2IFindQuota(p) \/ I2ICreateQuota(p)
    \/ \E csv \in CsvFiles, csvThrows \in BOOLEAN : I2IPreset(p, csv, csvThrows)
    \/ \E api \in ApiOutcomes, sharpOk \in BOOLEAN : I2IProvider(p, api, sharpOk)
    \/ I2ICharge(p)
    \/ \E saved \in BOOLEAN : I2ISaveGen(p, saved)

NextPreset == \E p \in PresetProcs : imageToImageWithPreset(p)

SpecPreset == InitPreset /\ [][NextPreset]_vars

\* three requests of one free user at once, her quota for today absent or
\* unused
BurstProcs == 1..3

InitBurst ==
    /\ env = [free |-> 0, paid |-> 0]
    /\ today = 0
    /\ tier = [u \in Users |-> "free"]
    /\ geminiService \in BOOLEAN
    /\ gens = EmptyGens
    /\ \E used \in {-1, 0} :
          quotas = IF used < 0 THEN EmptyQuotas ELSE EarlierQuota("alice", used)
    /\ proc = [p \in BurstProcs |-> Session("alice")]

NextBurst == \E p \in BurstProcs : imageToImage(p)

SpecBurst == InitBurst /\ [][NextBurst]_vars

\* ================================================================ claims
\* an image-to-image handler has written its increment of generationsUsed
HasCharged(r) == r.kind = "i2i" /\ (r.pc = "i2i.saveGen" \/ r.resp = "200")

\* an image-to-image handler is past its quota check
PastCheck(r) == r.kind = "i2i" /\ r.pc \notin {"i2i.findQuota", "i2i.createQuota"}
                /\ r.quota.exists

\* the Generation record a finished handler wrote, NoGen if it wrote none
RecordOf(r) == IF r.genId \in GenIds THEN gens[r.genId] ELSE NoGen

\* C1: of N concurrent Quota.incrementUsage calls for one user and day with
\* generationsLimit = L at most L succeed, and the stored generationsUsed
\* never exceeds generationsLimit
C1_QuotaMonotonicity ==
    /\ Cardinality({c \in DOMAIN proc : proc[c].kind = "inc" /\ proc[c].resp = "ok"})
          <= TierLimit(env, "free")
    /\ \A k \in Users \X Days :
          quotas[k].exists => quotas[k].generationsUsed <= quotas[k].generationsLimit

\* C2: two image-to-image requests of one user that both find one slot left
\* (generationsUsed = generationsLimit - 1) are never both charged and
\* answered with success
C2_LastSlotChargedOnce ==
    \A p, q \in DOMAIN proc :
        ( /\ p # q
          /\ proc[p].kind = "i2i" /\ proc[q].kind = "i2i"
          /\ proc[p].user = proc[q].user
          /\ proc[p].quota.exists /\ proc[q].quota.exists
          /\ proc[p].quota.date = proc[q].quota.date
          /\ proc[p].resp = "200" /\ proc[q].resp = "200" )
        => ~( /\ proc[p].quota.generationsUsed = proc[p].quota.generationsLimit
              /\ proc[q].quota.generationsUsed = proc[q].quota.generationsLimit )

\* C3: a request whose quota check finds generationsUsed >= generationsLimit
\* is answered 429 in that step, which writes neither collection; the request
\* never invokes the provider, never charges and never creates a Generation
C3_ExceededStep(p) ==
    ( /\ proc[p].pc \in {"i2i.findQuota", "i2i.createQuota"}
      /\ proc'[p].pc \notin {"i2i.findQuota", "i2i.createQuota"}
      /\ Exceeded(proc'[p].quota) )
    => ( /\ proc'[p].pc = "done" /\ proc'[p].resp = "429"
         /\ quotas' = quotas /\ gens' = gens )

C3_RejectedStays(p) ==
    (proc[p].kind = "i2i" /\ proc[p].resp = "429")
    => ( /\ proc'[p] = proc[p]
         /\ proc[p].outcome = "none" /\ proc[p].imageUrl = "none"
         /\ proc[p].genWrite = "none" /\ proc[p].genId = 0
         /\ ~HasCharged(proc[p]) )

C3_ExceededIsRejected ==
    [][\A p \in DOMAIN proc : C3_ExceededStep(p) /\ C3_RejectedStays(p)]_vars

C3_Witness ==
    \E p \in DOMAIN proc :
        /\ proc[p].kind = "i2i" /\ proc[p].resp = "429"
        /\ proc[p].quota.generationsUsed >= proc[p].quota.generationsLimit
        /\ quotas[<<proc[p].user, proc[p].quota.date>>].generationsUsed
              = proc[p].quota.generationsUsed

\* C4: a request whose result image URL equals its input image URL (an echo)
\* ends as a failure: it is not answered with success, generationsUsed is not
\* incremented, and a Generation it records is failed
C4_EchoIsFailure ==
    \A p \in DOMAIN proc :
        ( /\ proc[p].kind = "i2i" /\ PastCheck(proc[p])
          /\ proc[p].imageUrl = originalImageUrl )
        => ( /\ proc[p].resp # "200"
             /\ ~HasCharged(proc[p])
             /\ (proc[p].genWrite = "saved" => RecordOf(proc[p]).status = "failed") )

\* C5: a request whose provider call failed with an auth or safety error is
\* not charged, and the Generation it records is failed and carries the message
C5_RejectionNotCharged ==
    \A p \in DOMAIN proc :
        (proc[p].kind = "i2i" /\ proc[p].outcome \in {"API key", "safety"})
        => ( /\ ~HasCharged(proc[p])
             /\ (proc[p].genWrite = "saved"
                   => /\ RecordOf(proc[p]).status = "failed"
                      /\ RecordOf(proc[p]).errorMessage # "null") )

C7_ChargeAfterRecord ==
    \A p \in DOMAIN proc :
        HasCharged(proc[p]) => proc[p].genWrite \in {"saved", "failed"}

\* C8: every Generation record was created in status processing, never
\* directly in completed or failed
C8_CreatedProcessing ==
    \A g \in GenIds : gens[g].exists => gens[g].created = "processing"

\* C9: processingEndTime is set if and only if status is completed or failed
C9_EndTimeIffTerminal ==
    \A g \in GenIds :
        gens[g].exists => (gens[g].processingEndTime <=> gens[g].status \in Terminal)

\* C10: no step takes a Generation record from completed to failed or from
\* failed to completed; between the two lies a retry's reset to processing
C10_TerminalExclusive ==
    [][\A g \in GenIds :
          ~( /\ gens[g].exists
             /\ gens[g].status \in Terminal /\ gens'[g].status \in Terminal
             /\ gens'[g].status # gens[g].status )]_vars

C12_ProcessingResolves ==
    \A g \in GenIds :
        (gens[g].exists /\ gens[g].status = "processing")
            ~> (gens[g].status \in Terminal)

\* a finished image-to-image request on which the provider was invoked and
\* gave no usable image: the service threw, or its result had no imageUrl
C13_ProviderFailed(r) ==
    /\ r.kind = "i2i" /\ r.pc = "done"
    /\ r.outcome \in ApiOutcomes \ {"image"}
    /\ r.imageUrl # "placeholder"

\* C13: every finished request whose provider call gave no usable image has
\* exactly one Generation record, in a terminal status (the storage
\* accepting writes)
C13_ProviderFailureAlwaysRecorded ==
    \A p \in DOMAIN proc :
        (C13_ProviderFailed(proc[p]) /\ proc[p].saveError # "storage")
        => ( /\ proc[p].genWrite = "saved"
             /\ RecordOf(proc[p]).exists
             /\ RecordOf(proc[p]).status \in Terminal )

\* C13, for requests whose record write did not fail: the record is the
\* request's own, the only one it has, and the answer is 200
C13_ProviderFailureRecorded ==
    \A p \in DOMAIN proc :
        (C13_ProviderFailed(proc[p]) /\ proc[p].genWrite # "failed")
        => ( /\ proc[p].genWrite = "saved"
             /\ proc[p].resp = "200"
             /\ RecordOf(proc[p]).exists
             /\ RecordOf(proc[p]).userId = proc[p].user
             /\ RecordOf(proc[p]).status \in Terminal
             /\ \A q \in DOMAIN proc : q # p => proc[q].genId # proc[p].genId )

C13_Witness ==
    \E p \in DOMAIN proc :
        /\ C13_ProviderFailed(proc[p]) /\ proc[p].outcome = "noImage"
        /\ proc[p].genWrite = "saved"
        /\ RecordOf(proc[p]).status = "completed"

\* C14: every quota lookup for (userId, today) ends with the one record of
\* that user and day in hand, created with generationsUsed = 0 if it was
\* absent; no lookup fails because another one created the record first
C14_LookupRaceHarmless ==
    \A p \in DOMAIN proc :
        /\ proc[p].resp \notin {"E11000", "429 catch"}
        /\ (PastCheck(proc[p])
              => /\ quotas[<<proc[p].user, proc[p].quota.date>>].exists
                 /\ quotas[<<proc[p].user, proc[p].quota.date>>].generationsLimit
                       = proc[p].quota.generationsLimit)

\* the stored record of the user and day a call works on
C15_Stored(r) == quotas[<<r.user, r.quota.date>>]

\* C15: two getTodayQuota calls of one user that returned a record of the
\* same day returned the same generationsUsed, that of the one stored record;
\* a call reads the record of the day it is made on, gets generationsUsed = 0
\* when that day had no record yet, and no step of a call touches the record
\* of any other day or user, nor the usage of its own
C15_DayRollover ==
    /\ [](\A p, q \in DOMAIN proc :
            ( /\ proc[p].kind = "gtq" /\ proc[p].resp = "ok"
              /\ proc[q].kind = "gtq" /\ proc[q].resp = "ok"
              /\ proc[p].user = proc[q].user
              /\ proc[p].quota.date = proc[q].quota.date )
            => ( /\ proc[p].quota.generationsUsed = proc[q].quota.generationsUsed
                 /\ C15_Stored(proc[p]).exists
                 /\ C15_Stored(proc[p]).generationsUsed = proc[p].quota.generationsUsed ))
    /\ [][\A p \in DOMAIN proc :
            (proc'[p] # proc[p] /\ proc'[p].kind = "gtq" /\ proc[p].kind = "gtq")
            => /\ (proc[p].pc = "gtq.find"
                     => /\ proc'[p].quota.date = today
                        /\ proc'[p].quota.generationsUsed
                              = IF quotas[<<proc[p].user, today>>].exists
                                THEN quotas[<<proc[p].user, today>>].generationsUsed
                                ELSE 0)
               /\ \A k \in Users \X Days :
                     IF k = <<proc'[p].user, proc'[p].quota.date>>
                     THEN quotas'[k].generationsUsed = quotas[k].generationsUsed
                     ELSE quotas'[k] = quotas[k]]_vars

C15_Witness ==
    \E p, q \in DOMAIN proc :
        /\ proc[p].kind = "gtq" /\ proc[p].resp = "ok" /\ proc[p].quota.date = 0
        /\ proc[q].kind = "gtq" /\ proc[q].resp = "ok" /\ proc[q].quota.date = 1
        /\ proc[p].quota.generationsUsed > 0
        /\ quotas[<<"alice", 0>>].generationsUsed = proc[p].quota.generationsUsed
        /\ quotas[<<"alice", 1>>].exists
        /\ proc[q].quota.generationsUsed = 0

\* C16: when getTodayQuota finds today's record with the limit of the given
\* tier it writes nothing and returns the record; when the limits differ it
\* goes on to a save that sets the stored generationsLimit to the tier's and
\* leaves the stored generationsUsed, and every other record, as they are
C16_LimitUpdatedInPlace ==
    [][\A p \in DOMAIN proc :
          LET k == <<proc[p].user, today>>
              limit == TierLimit(env, proc[p].userTier)
          IN  /\ ( /\ proc'[p] # proc[p] /\ proc[p].pc = "gtq.find"
                   /\ quotas[k].exists )
                 => /\ quotas' = quotas
                    /\ proc'[p].quota.generationsUsed = quotas[k].generationsUsed
                    /\ proc'[p].quota.generationsLimit = limit
                    /\ IF quotas[k].generationsLimit = limit
                       THEN proc'[p].pc = proc[p].ret /\ proc'[p].quota = quotas[k]
                       ELSE proc'[p].pc = "gtq.saveLimit"
              /\ (proc'[p] # proc[p] /\ proc[p].pc = "gtq.saveLimit")
                 => LET own == <<proc[p].user, proc[p].quota.date>>
                    IN  /\ quotas'[own].generationsLimit = limit
                        /\ quotas'[own].generationsUsed = quotas[own].generationsUsed
                        /\ \A j \in Users \X Days : j # own => quotas'[j] = quotas[j]]_vars

C16_Witness ==
    \E p \in DOMAIN proc :
        /\ proc[p].kind = "retry" /\ proc[p].pc = "retry.can"
        /\ tier[proc[p].user] = "paid"
        /\ proc[p].quota.generationsLimit = DefaultFreeLimit
        /\ quotas[<<proc[p].user, today>>].generationsLimit = DefaultFreeLimit
        /\ quotas[<<proc[p].user, today>>].generationsUsed = DefaultPaidLimit
        /\ proc[p].quota.generationsUsed = DefaultPaidLimit - 1

\* a request with a missing, empty or whitespace-only prompt, a prompt of more
\* than 1000 characters, or no uploaded file
C17_Malformed(r) ==
    \/ ~r.prompt.present \/ r.prompt.trimmed = 0
    \/ r.prompt.length > MaxPromptLength
    \/ ~r.hasFile

\* C17: a malformed image-to-image request is answered 400 in its first
\* step, which writes neither collection; the handler has loaded no quota,
\* invoked no provider, charged nothing and written no Generation
C17_ValidationNoSideEffects ==
    /\ [](\A p \in DOMAIN proc :
            (proc[p].kind = "i2i" /\ C17_Malformed(proc[p]))
            => ( /\ proc[p].pc = "done"
                 /\ proc[p].resp \in {"400 prompt", "400 file", "400 length"}
                 /\ proc[p].quota = NoQuota /\ proc[p].outcome = "none"
                 /\ proc[p].imageUrl = "none"
                 /\ proc[p].genWrite = "none" /\ proc[p].genId = 0 ))
    /\ [][\A p \in DOMAIN proc :
            (proc'[p] # proc[p] /\ proc'[p].kind = "i2i" /\ C17_Malformed(proc'[p]))
            => (quotas' = quotas /\ gens' = gens)]_vars

C17_Witness ==
    \E p, q \in DOMAIN proc :
        /\ proc[p].kind = "i2i" /\ proc[p].resp = "400 length" /\ proc[p].hasFile
        /\ proc[p].prompt.length = MaxPromptLength + 1
        /\ proc[q].kind = "i2i" /\ proc[q].resp = "400 file"
        /\ proc[q].prompt.length = MaxPromptLength
        /\ quotas = EmptyQuotas /\ gens = EmptyGens

\* C18: a request whose Generation write failed is answered with success; the
\* body comes from the stand-in record and carries the result image URL and
\* the quota as charged, and the failed write leaves no record
C18_SaveFailureTolerated ==
    \A p \in DOMAIN proc :
        (proc[p].kind = "i2i" /\ proc[p].genWrite = "failed")
        => ( /\ proc[p].pc = "done" /\ proc[p].resp = "200"
             /\ proc[p].body.success
             /\ proc[p].body.id = "temp-id"
             /\ proc[p].body.imageUrl = proc[p].imageUrl
             /\ proc[p].body.generationsUsed = proc[p].quota.generationsUsed
             /\ proc[p].body.generationsLimit = proc[p].quota.generationsLimit
             /\ proc[p].body.generationsRemaining
                   = proc[p].quota.generationsLimit - proc[p].quota.generationsUsed
             /\ proc[p].genId = 0 )

C18_Witness ==
    \E p \in DOMAIN proc :
        /\ proc[p].kind = "i2i" /\ proc[p].genWrite = "failed"
        /\ proc[p].outcome = "image" /\ proc[p].body.imageUrl = "gemini"
        /\ proc[p].body.generationsRemaining = 0
        /\ gens = EmptyGens

\* C19: a handler whose client went away after the provider was invoked
\* still runs to its end, and at its end it has charged generationsUsed and
\* attempted the Generation write with the provider result it obtained; a
\* record it saved is completed and holds that result
C19_CommitSurvivesDisconnect ==
    /\ \A p \in Procs :
          (~proc[p].connected /\ proc[p].pc # "done") ~> (proc[p].pc = "done")
    /\ [](\A p \in DOMAIN proc :
            (~proc[p].connected /\ proc[p].pc = "done")
            => ( /\ proc[p].resp = "200" /\ HasCharged(proc[p])
                 /\ proc[p].genWrite \in {"saved", "failed"}
                 /\ quotas[<<proc[p].user, proc[p].quota.date>>].generationsUsed > 0
                 /\ proc[p].body.generationsUsed = proc[p].quota.generationsUsed
                 /\ (proc[p].genWrite = "saved"
                       => /\ RecordOf(proc[p]).status = "completed"
                          /\ RecordOf(proc[p]).userId = proc[p].user
                          /\ RecordOf(proc[p]).generatedImageUrl = proc[p].imageUrl) ))

C19_Witness ==
    \E p \in DOMAIN proc :
        /\ ~proc[p].connected /\ proc[p].pc = "done"
        /\ proc[p].outcome = "image" /\ proc[p].genWrite = "saved"
        /\ RecordOf(proc[p]).generatedImageUrl = "gemini"
        /\ quotas[<<proc[p].user, proc[p].quota.date>>].generationsUsed
              = proc[p].quota.generationsUsed

\* C20: a step of a handler serving user A leaves every Quota and every
\* Generation of another user as it is, and a record it creates belongs to
\* A; a status, retry or delete request for another user's generation id is
\* answered 404 with nothing loaded
C20_OwnerIsolation ==
    [][\A p \in DOMAIN proc :
          (proc'[p] # proc[p])
          => LET a == proc'[p].user
             IN  /\ \A k \in Users \X Days : k[1] # a => quotas'[k] = quotas[k]
                 /\ \A g \in GenIds :
                       /\ (gens[g].exists /\ gens[g].userId # a) => gens'[g] = gens[g]
                       /\ (gens'[g].exists /\ ~gens[g].exists) => gens'[g].userId = a
                 /\ ( /\ proc[p].kind = "idle"
                      /\ proc'[p].kind \in {"status", "retry", "delete"}
                      /\ gens[proc'[p].genId].exists
                      /\ gens[proc'[p].genId].userId # a )
                    => ( /\ proc'[p].pc = "done" /\ proc'[p].resp = "404"
                         /\ proc'[p].generation = NoGen )]_vars

C20_Witness ==
    \E p, q \in DOMAIN proc :
        /\ proc[p].kind = "retry" /\ proc[p].resp = "404"
        /\ gens[proc[p].genId].exists /\ gens[proc[p].genId].userId # proc[p].user
        /\ gens[proc[p].genId].status = "failed"
        /\ proc[q].kind = "status" /\ proc[q].resp = "404"
        /\ gens[proc[q].genId].exists /\ gens[proc[q].genId].userId # proc[q].user

\* the prompt resolution of an image-to-image handler is behind it
PromptResolved(r) ==
    /\ r.kind = "i2i"
    /\ \/ r.pc \in {"i2i.provider", "i2i.charge", "i2i.saveGen"}
       \/ r.pc = "done" /\ r.resp \in {"200", "502"}

\* C21: whatever the raw prompt and the preset input (none, unknown, found
\* with or without image placeholder and with or without {prompt}, or a
\* catalog lookup that throws), the final prompt contains the URL of the
\* uploaded image, and the provider is called with that prompt
C21_PromptCarriesImage ==
    \A p \in DOMAIN proc :
       /\ PromptResolved(proc[p]) => Includes(proc[p].finalPrompt, uploadedImageUrl)
       /\ proc[p].outcome # "none" =>
             /\ proc[p].sentPrompt = proc[p].finalPrompt
             /\ Includes(proc[p].sentPrompt, uploadedImageUrl)

\* the provider was called for a preset found in the catalog whose template
\* has neither an image placeholder nor {prompt}
C21_Witness ==
    \E p \in DOMAIN proc :
       /\ proc[p].outcome # "none"
       /\ proc[p].preset = "lighting" /\ proc[p].presetFound
       /\ proc[p].sentPrompt =
             <<"soft light", ", reference image: ", uploadedImageUrl, ", ", "sunset">>

\* C22: the prompt resolution never fails a request: when the catalog lookup
\* throws, the final prompt is exactly the raw prompt followed by
\* ", reference image: " and the URL, and the handler goes on to the provider
\* step (to the commit, when no service is configured) without a response
C22_CatalogErrorFallsBack ==
    [][\A p \in DOMAIN proc :
          proc[p].pc = "i2i.preset" /\ proc'[p] # proc[p] =>
             /\ proc'[p].resp = "none"
             /\ proc'[p].pc = IF geminiService THEN "i2i.provider" ELSE "i2i.charge"
             /\ proc'[p].catalogError =>
                   proc'[p].finalPrompt =
                      proc[p].prompt.text \o <<", reference image: ", uploadedImageUrl>>]_vars

\* the catalog lookup threw and the handler is at the provider call with the
\* fallback prompt
C22_Witness ==
    \E p \in DOMAIN proc :
       /\ proc[p].catalogError /\ proc[p].pc = "i2i.provider"
       /\ proc[p].finalPrompt = <<"US", "$$", "5", ", reference image: ", uploadedImageUrl>>

\* a template with every {prompt} replaced by the raw prompt and every image
\* placeholder by the URL
C23_Filled(template, prompt) ==
    Flatten([i \in 1..Len(template) |->
                IF template[i] = "{prompt}" THEN prompt
                ELSE IF template[i] \in ImagePlaceholders THEN <<uploadedImageUrl>>
                ELSE <<template[i]>>])

\* C23: for a found preset whose template has both a {prompt} and an image
\* placeholder, the resolved prompt is the template with {prompt} replaced by
\* the raw prompt and the image placeholder by the URL, nothing appended
C23_TemplateFilledVerbatim ==
    \A p \in DOMAIN proc :
       /\ PromptResolved(proc[p]) /\ proc[p].presetFound
       /\ Includes(proc[p].mainPrompt, "{prompt}")
       /\ \E i \in 1..Len(proc[p].mainPrompt) : proc[p].mainPrompt[i] \in ImagePlaceholders
       => proc[p].finalPrompt = C23_Filled(proc[p].mainPrompt, proc[p].prompt.text)

\* a finished request for which the provider returned a new image
C24_NewImage(r) == r.kind = "i2i" /\ r.pc = "done" /\ r.outcome = "image"

\* C24: a request of a user under the limit with a valid prompt and image,
\* with or without a preset, for which the provider returns a new image:
\* generationsUsed goes up by exactly 1, a completed Generation with the
\* generated image URL is stored (the storage accepting writes), and the
\* response carries the image URL and the updated quota
C24_SuccessPath ==
    /\ [](\A p \in DOMAIN proc :
            C24_NewImage(proc[p]) /\ proc[p].saveError # "storage" =>
               /\ proc[p].resp = "200" /\ proc[p].body.success
               /\ proc[p].body.imageUrl = "gemini"
               /\ proc[p].body.generationsUsed =
                     quotas[<<proc[p].user, today>>].generationsUsed
               /\ proc[p].body.generationsLimit =
                     quotas[<<proc[p].user, today>>].generationsLimit
               /\ RecordOf(proc[p]).exists
               /\ RecordOf(proc[p]).status = "completed"
               /\ RecordOf(proc[p]).generatedImageUrl = "gemini")
    /\ [][\A p \in DOMAIN proc :
            proc[p].pc = "i2i.charge" /\ proc'[p].pc = "i2i.saveGen" =>
               quotas'[<<proc[p].user, today>>].generationsUsed =
                  quotas[<<proc[p].user, today>>].generationsUsed + 1]_vars

\* a finished request that passed validation and the quota check
C25_Admitted(r) ==
    /\ r.kind = "i2i" /\ r.pc = "done"
    /\ r.resp \notin {"400 prompt", "400 file", "400 length", "429", "429 catch"}

\* C25: with no provider client configured, a request that passes validation
\* and the quota check is answered with success, its generated image URL is
\* the uploaded image's URL (an echo), its Generation is recorded as completed
\* (the storage accepting writes) and generationsUsed is charged by 1
C25_UnconfiguredServiceEchoes ==
    /\ [](\A p \in DOMAIN proc :
            ~geminiService /\ C25_Admitted(proc[p]) /\ proc[p].saveError # "storage" =>
               /\ proc[p].resp = "200" /\ proc[p].body.success
               /\ proc[p].outcome = "none"
               /\ proc[p].body.imageUrl = originalImageUrl
               /\ proc[p].echoedInput
               /\ RecordOf(proc[p]).status = "completed"
               /\ RecordOf(proc[p]).generatedImageUrl = originalImageUrl)
    /\ [][\A p \in DOMAIN proc :
            ~geminiService /\ proc[p].pc = "i2i.charge" /\ proc'[p].pc # "i2i.charge" =>
               /\ proc'[p].pc = "i2i.saveGen"
               /\ quotas'[<<proc[p].user, today>>].generationsUsed =
                     quotas[<<proc[p].user, today>>].generationsUsed + 1]_vars

\* C26: every image-to-image request that passed the quota check and commits
\* raises the stored generationsUsed by exactly 1, so that after N such
\* requests it is the initial value plus N under every interleaving
C26_NoLostIncrement ==
    [][\A p \in DOMAIN proc :
          proc[p].pc = "i2i.charge" /\ proc'[p].pc = "i2i.saveGen" =>
             quotas'[<<proc[p].user, proc[p].quota.date>>].generationsUsed =
                quotas[<<proc[p].user, proc[p].quota.date>>].generationsUsed + 1]_vars

\* the limit of a user's current tier: 5 for free, 50 for paid
C27_LimitOfTier(u) == IF tier[u] = "paid" THEN DefaultPaidLimit ELSE DefaultFreeLimit

\* C27: whenever an operation has read today's quota of a user to decide or
\* to report (GET quota, the retry check, the image-to-image authorization),
\* the generationsLimit it holds, and the one stored, is the limit of that
\* user's current tier
C27_LimitFollowsTier ==
    /\ \A p \in DOMAIN proc :
          proc[p].kind \in {"quota", "retry", "i2i"} /\ proc[p].quota.exists =>
             proc[p].quota.generationsLimit = C27_LimitOfTier(proc[p].user)
    /\ \A u \in Users :
          quotas[<<u, today>>].exists =>
             quotas[<<u, today>>].generationsLimit = C27_LimitOfTier(u)

\* C28: within one (user, day) Quota record generationsUsed never decreases,
\* whatever the sequence and interleaving of API operations
C28_UsedNeverDecreases ==
    [][\A k \in Users \X Days :
          quotas[k].exists =>
             quotas'[k].generationsUsed >= quotas[k].generationsUsed]_vars

\* C29: generationsUsed <= generationsLimit in every reachable state of a
\* Quota record, also after getTodayQuota has lowered generationsLimit in
\* place
C29_UsedWithinLimit ==
    \A k \in Users \X Days :
       quotas[k].exists => quotas[k].generationsUsed <= quotas[k].generationsLimit

\* C30: for every preset that resolves from the catalog or from the built-in
\* table the normalized name written as presetUsed is a value of the schema's
\* enum, and a charged, successful request made with such a preset leaves a
\* persisted Generation (the storage accepting writes)
C30_PresetNameAccepted ==
    \A p \in DOMAIN proc :
       PromptResolved(proc[p]) /\ proc[p].presetFound =>
          /\ proc[p].normalizedPreset \in PresetUsedEnum
          /\ proc[p].resp = "200" /\ proc[p].saveError # "storage" =>
                /\ proc[p].genWrite = "saved"
                /\ RecordOf(proc[p]).exists
                /\ RecordOf(proc[p]).presetUsed = proc[p].normalizedPreset

====
